---- MODULE Spec2Model ----
(***************************************************************************)
(* Employee/Task REST API (Flask + SQLAlchemy + Marshmallow).              *)
(*                                                                         *)
(* The state is the two tables of the database, the database's row-id      *)
(* generators and clock, and one request slot per server worker.  A        *)
(* mutating request takes two steps: the handler's validation and reads    *)
(* (up to the point where the service is about to commit), and the         *)
(* commit, which flushes the staged statements in one transaction, and on  *)
(* success serialises the response.  Requests of different workers         *)
(* interleave between the two steps.                                       *)
(***************************************************************************)
EXTENDS Integers, Sequences, FiniteSets, TLC

(***************************************************************************)
(* Bounds of the model and the inputs requests are drawn from.             *)
(***************************************************************************)
\* Total number of requests the workers serve in one behaviour.
MaxRequests == 3

\* Number of further requests that only read (lists).
MaxReads == 1

Workers == {"w1", "w2"}
WorkerBefore(v, w) == v = "w1" /\ w = "w2"

\* The value v of a JSON member or of a column is held as <<v>>, and
\* null / None / SQL NULL as << >>.
None == << >>
Some(v) == <<v>>

Emails == {"a@x.io", "b@x.io"}

\* Ids in paths and payloads: 1 and 2 are ids rows get, 2 being absent in
\* most states; 0 is an integer no row ever has.
PathIds == {1, 2}
IdInputs == {0, 1, 2}

\* The deployments app/config.py selects between.
Backends == {"sqlite", "postgresql"}

VARIABLES
    backend,    \* the database behind SQLALCHEMY_DATABASE_URI
    employees,  \* table employees: id -> row
    tasks,      \* table tasks: id -> row
    empSeq,     \* postgresql: last value of employees_id_seq
    taskSeq,    \* postgresql: last value of tasks_id_seq
    now,        \* the clock datetime.now(timezone.utc) reads
    req,        \* worker -> the request it is serving
    last,       \* the request answered last, with its response
    issued,     \* number of requests started so far
    hist        \* history: the tables as they were when the request in
                \* `last` was answered, and the employee ids given so far

vars ==
    <<backend, employees, tasks, empSeq, taskSeq, now, req, last, issued,
      hist>>

(***************************************************************************)
(* Error messages, as the sequences of their words.                        *)
(***************************************************************************)
MsgEmailExists == <<"Email", "already", "exists">>
MsgEmailIntegrity ==
    <<"Database", "integrity", "error:", "Email", "must", "be", "unique">>
MsgEmployeeNotFound == <<"Employee", "not", "found">>
MsgTaskNotFound == <<"Task", "not", "found">>
MsgEmployeeIdNotFound(id) ==
    <<"Employee", "with", "ID", ToString(id), "not", "found">>
MsgTaskIdNotFound(id) ==
    <<"Task", "with", "ID", ToString(id), "not", "found">>
MsgValidation == <<"Validation", "failed">>
MsgNoData == <<"No", "data", "provided", "for", "update">>

\* str(e) of the exceptions the database layer raises at flush.
ExcStaleData ==
    <<"UPDATE", "statement", "expected", "to", "update", "1", "row(s);",
      "0", "were", "matched.">>
ExcUnique ==
    <<"(IntegrityError)", "UNIQUE", "constraint", "failed:",
      "employees.email">>
ExcForeignKey ==
    <<"(IntegrityError)", "violates", "foreign", "key", "constraint">>
ExcNotIterable == <<"'Task'", "object", "is", "not", "iterable">>
ExcObjectDeleted ==
    <<"Instance", "has", "been", "deleted,", "or", "its", "row", "is",
      "otherwise", "not", "present.">>

MsgError(what, exc) == <<"Error", what>> \o exc

\* str.lower(), word by word, for the capitalised words messages hold.
LowerWord(w) ==
    CASE w = "Employee" -> "employee"
      [] w = "Email" -> "email"
      [] w = "Task" -> "task"
      [] w = "ID" -> "id"
      [] w = "Error" -> "error"
      [] w = "Database" -> "database"
      [] w = "UPDATE" -> "update"
      [] w = "Instance" -> "instance"
      [] w = "(IntegrityError)" -> "(integrityerror)"
      [] OTHER -> w

Lower(msg) == [i \in 1..Len(msg) |-> LowerWord(msg[i])]

\* 'not found' in error.lower()
HasNotFound(msg) ==
    \E i \in 1..(Len(msg) - 1) :
        Lower(msg)[i] = "not" /\ Lower(msg)[i + 1] = "found"

(***************************************************************************)
(* Responses: jsonify(body), code.                                         *)
(***************************************************************************)
NoResponse == [code |-> 0, body |-> [status |-> "none"]]

ErrorResponse(code, msg) ==
    [code |-> code, body |-> [status |-> "error", message |-> msg]]

ValidationResponse ==
    [code |-> 400,
     body |-> [status |-> "error", message |-> MsgValidation,
               errors |-> "messages"]]

DataResponse(code, data) ==
    [code |-> code, body |-> [status |-> "success", data |-> data]]

MessageResponseBare(code) == [code |-> code, body |-> [status |-> "success"]]

MessageResponse(code) ==
    [code |-> code,
     body |-> [status |-> "success", message |-> <<"deleted", "successfully">>]]

\* A request slot: the handler, where it stands, its path id, its loaded
\* payload, the row the session loaded, and the response once sent.
Idle == [op |-> "none", pc |-> "idle", id |-> 0, data |-> << >>,
         loaded |-> << >>, resp |-> NoResponse]

Request(op, id, data, loaded) ==
    [op |-> op, pc |-> "commit", id |-> id, data |-> data,
     loaded |-> loaded, resp |-> NoResponse]

Done(r, resp) == [r EXCEPT !.pc = "done", !.resp = resp]

(***************************************************************************)
(* Tables.                                                                 *)
(***************************************************************************)
Max(S) == CHOOSE m \in S : \A n \in S : n <= m

\* Column id, primary key: the id the database gives an inserted row.
\* sqlite: INTEGER PRIMARY KEY is the rowid, one more than the largest
\* rowid in the table; postgresql: nextval of the column's sequence.
NextId(db, rows, seq) ==
    IF db = "sqlite"
    THEN IF DOMAIN rows = {} THEN 1 ELSE Max(DOMAIN rows) + 1
    ELSE seq + 1

\* The sequence after an INSERT was attempted (nextval is not rolled back).
NextSeq(db, seq) == IF db = "sqlite" THEN seq ELSE seq + 1

\* Employee.query.filter_by(email=...).first()
EmailExists(emps, email) == \E i \in DOMAIN emps : emps[i].email = email

\* Column email, unique=True: may row `id` hold `email` beside the others?
UniqueEmailUnchecked(emps, id, email) == TRUE
UniqueEmailOk(emps, id, email) ==
    \A i \in DOMAIN emps : i # id => emps[i].email # email

\* db.session.rollback(): the tables as they were when the transaction began.
Rollback(before, staged) == before

\* datetime.now(timezone.utc) when the clock last read t: the same instant
\* again, or a later one.  The created_at and updated_at defaults of one
\* INSERT are evaluated back to back and are given one reading.
ClockReads(t) == {t, t + 1}

Put(rows, id, row) == [i \in DOMAIN rows \cup {id} |->
                        IF i = id THEN row ELSE rows[i]]

RemoveFrom(rows, ids) ==
    [i \in {j \in DOMAIN rows : \A k \in ids : j < k} |-> rows[i]]
Remove(rows, ids) == [i \in DOMAIN rows \ ids |-> rows[i]]

\* The orders in which a query without ORDER BY may return rows S.
Orders(S) ==
    {s \in [1..Cardinality(S) -> S] :
        \A i, j \in 1..Cardinality(S) : i # j => s[i] # s[j]}

\* dict.get(key) / dict.get(key, default)
Get(data, key, default) == IF key \in DOMAIN data THEN data[key] ELSE default

(***************************************************************************)
(* Employees: schemas, service and routes.                                 *)
(***************************************************************************)
EmployeeLoadFields ==
    {"first_name", "last_name", "email", "phone", "department", "position",
     "hire_date"}
EmployeeRequired == {"first_name", "last_name", "email"}
EmployeeNullable == {"phone", "department", "position", "hire_date"}

\* EmployeeSchema.load: unknown and dump-only keys are refused, the required
\* keys must be there, and only the allow_none fields may be null.
EmployeeSchemaValid(json) ==
    /\ DOMAIN json \subseteq EmployeeLoadFields
    /\ EmployeeRequired \subseteq DOMAIN json
    /\ \A k \in DOMAIN json : json[k] = None => k \in EmployeeNullable

\* EmployeeUpdateSchema.load: every field optional.
EmployeeUpdateSchemaValid(json) ==
    /\ DOMAIN json \subseteq EmployeeLoadFields
    /\ \A k \in DOMAIN json : json[k] = None => k \in EmployeeNullable

\* Employee(...) as create_employee builds it, with the column defaults.
NewEmployee(id, data, t1, t2) ==
    [id |-> id,
     first_name |-> Get(data, "first_name", None),
     last_name |-> Get(data, "last_name", None),
     email |-> Get(data, "email", None),
     phone |-> Get(data, "phone", None),
     department |-> Get(data, "department", None),
     position |-> Get(data, "position", None),
     hire_date |-> Get(data, "hire_date", None),
     created_at |-> t1,
     updated_at |-> t2]

\* The for/setattr loop, as the UPDATE the flush emits: the columns whose
\* value differs from the loaded one, and updated_at (onupdate) with them.
Changed(loaded, data) == {k \in DOMAIN data : data[k] # loaded[k]}

SetAttrsReplace(row, loaded, data, t) ==
    [k \in DOMAIN row |->
        IF k \in DOMAIN data THEN data[k]
        ELSE IF k = "updated_at" THEN t
        ELSE IF k \in {"id", "created_at"} THEN row[k]
        ELSE None]

SetAttrs(row, loaded, data, t) ==
    [k \in DOMAIN row |->
        IF k \in Changed(loaded, data) THEN data[k]
        ELSE IF k = "updated_at" THEN t
        ELSE row[k]]

\* Employee.tasks: the tasks whose employee_id is `id`.  With cascade
\* 'all, delete-orphan' they are the tasks the session deletes with the
\* employee.
OwnedTasksNone(tsks, id) == {}
OwnedTasksAny(tsks, id) == DOMAIN tsks
OwnedTasks(tsks, id) == {t \in DOMAIN tsks : tsks[t].employee_id = Some(id)}

\* employee_schema.dump(employee): field tasks is List(Dict()) over the
\* dynamic relationship, and Dict serialises an element as dict(element),
\* which raises TypeError for a Task.  The routes set result['tasks'] only
\* after the dump has returned.
EmployeeSchemaDumpRaises(tsks, id) == OwnedTasks(tsks, id) # {}

\* The dumped employee, with result['tasks'] as the route sets it; the dump
\* returns only for an employee without tasks.
EmployeeDump(row) ==
    [k \in DOMAIN row \cup {"tasks"} |-> IF k = "tasks" THEN << >> ELSE row[k]]

\* EmployeeService.create_employee before the insert: the error it returns.
create_employee_precheck(emps, data) ==
    IF EmailExists(emps, data.email) THEN MsgEmailExists ELSE None

\* EmployeeService.update_employee before the setattr loop.
update_employee_precheck_email_first(emps, id, data) ==
    IF "email" \in DOMAIN data /\ EmailExists(emps, data.email)
       /\ (id \in DOMAIN emps => data.email # emps[id].email)
    THEN MsgEmailExists
    ELSE IF id \notin DOMAIN emps THEN MsgEmployeeNotFound ELSE None

update_employee_precheck_any_holder(emps, id, data) ==
    IF id \notin DOMAIN emps THEN MsgEmployeeNotFound
    ELSE IF "email" \in DOMAIN data /\ EmailExists(emps, data.email)
         THEN MsgEmailExists
         ELSE None

update_employee_precheck(emps, id, data) ==
    IF id \notin DOMAIN emps THEN MsgEmployeeNotFound
    ELSE IF "email" \in DOMAIN data /\ data.email # emps[id].email
            /\ EmailExists(emps, data.email)
         THEN MsgEmailExists
         ELSE None

\* The except clauses of create_employee and update_employee that catch
\* the flush's IntegrityError: the error the service returns.
create_employee_AnyException == MsgError("creating employee:", ExcUnique)
create_employee_IntegrityError == MsgEmailIntegrity
update_employee_AnyException == MsgError("updating employee:", ExcUnique)
update_employee_IntegrityError == MsgEmailIntegrity

\* The routes' status code for a service error.
CreateErrorCodeConflict(error) == 409
CreateErrorCode(error) == 400
UpdateErrorCodeConflict(error) == IF HasNotFound(error) THEN 404 ELSE 409
UpdateErrorCode(error) == IF HasNotFound(error) THEN 404 ELSE 400
DeleteErrorCode(error) == IF HasNotFound(error) THEN 404 ELSE 500

\* The server hands a request to an idle worker; the workers being alike,
\* it is the first idle one.
CanStart(w) ==
    /\ req[w].pc = "idle"
    /\ \A v \in Workers : req[v].pc = "idle" => ~WorkerBefore(v, w)
    /\ issued < MaxRequests

\* The history at a step that answers a request.
Before == [hist EXCEPT !.employees = employees, !.tasks = tasks]

\* Worker w takes a request: r is where its handler stands after its reads,
\* answered already or about to commit.
Start(w, r) ==
    /\ IF r.pc = "done"
       THEN last' = r /\ hist' = Before /\ UNCHANGED req
       ELSE req' = [req EXCEPT ![w] = r] /\ UNCHANGED <<last, hist>>
    /\ issued' = issued + 1

\* Worker w sends the response of the request it serves.
Finish(w, resp) ==
    /\ last' = Done([req[w] EXCEPT !.loaded = << >>], resp)
    /\ req' = [req EXCEPT ![w] = Idle]

At(w, op) == req[w].op = op /\ req[w].pc = "commit"

\* POST /api/employees, up to the commit.
create_employee(w, json) ==
    /\ CanStart(w)
    /\ LET r == Request("create_employee", 0, json, << >>)
           error == create_employee_precheck(employees, json)
       IN Start(w, IF ~EmployeeSchemaValid(json)
                   THEN Done(r, ValidationResponse)
                   ELSE IF error # None
                   THEN Done(r, ErrorResponse(CreateErrorCode(error), error))
                   ELSE r)
    /\ UNCHANGED <<backend, employees, tasks, empSeq, taskSeq, now>>

\* db.session.add(employee); db.session.commit(), and the response.
create_employee_commit(w) ==
    /\ At(w, "create_employee")
    /\ LET data == req[w].data
           id == NextId(backend, employees, empSeq)
       IN IF UniqueEmailOk(employees, id, data.email)
          THEN \E t \in ClockReads(now) :
                 LET row == NewEmployee(id, data, t, t)
                 IN /\ employees' = Put(employees, id, row)
                    /\ now' = t
                    /\ hist' = [Before EXCEPT !.created = Append(@, id)]
                    /\ Finish(w, IF EmployeeSchemaDumpRaises(tasks, id)
                                 THEN ErrorResponse(500, MsgError(
                                          "creating employee:", ExcNotIterable))
                                 ELSE DataResponse(201, EmployeeDump(row)))
          ELSE /\ employees' = Rollback(employees,
                     Put(employees, id, NewEmployee(id, data, now, now)))
               /\ now' = now
               /\ hist' = Before
               /\ Finish(w, ErrorResponse(
                      CreateErrorCode(create_employee_IntegrityError),
                      create_employee_IntegrityError))
    /\ empSeq' = NextSeq(backend, empSeq)
    /\ UNCHANGED <<backend, tasks, taskSeq, issued>>

\* PUT /api/employees/<id>, up to the commit.
update_employee(w, id, json) ==
    /\ CanStart(w)
    /\ LET error == update_employee_precheck(employees, id, json)
           r == Request("update_employee", id, json,
                        IF id \in DOMAIN employees THEN employees[id]
                        ELSE << >>)
       IN Start(w, IF ~EmployeeUpdateSchemaValid(json)
                   THEN Done([r EXCEPT !.loaded = << >>], ValidationResponse)
                   ELSE IF DOMAIN json = {}
                   THEN Done([r EXCEPT !.loaded = << >>],
                             ErrorResponse(400, MsgNoData))
                   ELSE IF error # None
                   THEN Done([r EXCEPT !.loaded = << >>],
                             ErrorResponse(UpdateErrorCode(error), error))
                   ELSE r)
    /\ UNCHANGED <<backend, employees, tasks, empSeq, taskSeq, now>>

\* db.session.commit() of update_employee, and the response.
update_employee_commit(w) ==
    /\ At(w, "update_employee")
    /\ LET id == req[w].id
           data == req[w].data
           loaded == req[w].loaded
           stale == MsgError("updating employee:", ExcStaleData)
           gone == MsgError("updating employee:", ExcObjectDeleted)
           raised == ErrorResponse(500, MsgError("updating employee:",
                                                 ExcNotIterable))
       IN IF Changed(loaded, data) = {}
          THEN \* nothing to flush; the dump refreshes the expired row
               /\ UNCHANGED <<employees, now>>
               /\ Finish(w, IF id \notin DOMAIN employees
                            THEN ErrorResponse(500, gone)
                            ELSE IF EmployeeSchemaDumpRaises(tasks, id)
                            THEN raised
                            ELSE DataResponse(200, EmployeeDump(employees[id])))
          ELSE IF id \notin DOMAIN employees
          THEN /\ UNCHANGED <<employees, now>>
               /\ Finish(w, ErrorResponse(UpdateErrorCode(stale), stale))
          ELSE \E t \in ClockReads(now) :
                 LET row == SetAttrs(employees[id], loaded, data, t)
                     staged == Put(employees, id, row)
                 IN IF UniqueEmailOk(employees, id, row.email)
                    THEN /\ employees' = staged
                         /\ now' = t
                         /\ Finish(w, IF EmployeeSchemaDumpRaises(tasks, id)
                                      THEN raised
                                      ELSE DataResponse(200, EmployeeDump(row)))
                    ELSE /\ employees' = Rollback(employees, staged)
                         /\ now' = now
                         /\ Finish(w, ErrorResponse(
                                UpdateErrorCode(update_employee_IntegrityError),
                                update_employee_IntegrityError))
    /\ hist' = Before
    /\ UNCHANGED <<backend, tasks, empSeq, taskSeq, issued>>

\* DELETE /api/employees/<id>, up to the commit.
delete_employee(w, id) ==
    /\ CanStart(w)
    /\ LET r == Request("delete_employee", id, << >>, << >>)
       IN Start(w, IF id \notin DOMAIN employees
                   THEN Done(r, ErrorResponse(
                            DeleteErrorCode(MsgEmployeeNotFound),
                            MsgEmployeeNotFound))
                   ELSE r)
    /\ UNCHANGED <<backend, employees, tasks, empSeq, taskSeq, now>>

\* db.session.delete(employee); db.session.commit(), and the response.  A
\* DELETE that matches no row (the row went meanwhile) is only warned about.
delete_employee_commit(w) ==
    /\ At(w, "delete_employee")
    /\ employees' = Remove(employees, {req[w].id})
    /\ tasks' = Remove(tasks, OwnedTasks(tasks, req[w].id))
    /\ Finish(w, MessageResponse(200))
    /\ hist' = Before
    /\ UNCHANGED <<backend, empSeq, taskSeq, now, issued>>

\* GET /api/employees/<id>: the response over tables emps and tsks.
get_employee_response(emps, tsks, id) ==
    IF id \notin DOMAIN emps
    THEN ErrorResponse(404, MsgEmployeeIdNotFound(id))
    ELSE IF EmployeeSchemaDumpRaises(tsks, id)
    THEN ErrorResponse(500, MsgError("retrieving employee:", ExcNotIterable))
    ELSE DataResponse(200, EmployeeDump(emps[id]))

get_employee_touching(w, id) ==
    /\ CanStart(w)
    /\ Start(w, Done(Request("get_employee", id, << >>, << >>),
                     get_employee_response(employees, tasks, id)))
    /\ employees' = IF id \in DOMAIN employees
                    THEN [employees EXCEPT ![id].updated_at = @ + 1]
                    ELSE employees
    /\ UNCHANGED <<backend, tasks, empSeq, taskSeq, now>>

get_employee(w, id) ==
    /\ CanStart(w)
    /\ Start(w, Done(Request("get_employee", id, << >>, << >>),
                     get_employee_response(employees, tasks, id)))
    /\ UNCHANGED <<backend, employees, tasks, empSeq, taskSeq, now>>

\* jsonify({'status': 'success', 'data': result, 'count': len(result)}), 200
CountResponse(data) ==
    [code |-> 200,
     body |-> [status |-> "success", data |-> data, count |-> Len(data)]]

\* GET /api/employees/<id>/tasks: employee.tasks.all(), each as to_dict().
get_employee_tasks(w, id) ==
    /\ CanStart(w)
    /\ LET r == Request("get_employee_tasks", id, << >>, << >>)
       IN IF id \notin DOMAIN employees
          THEN Start(w, Done(r, ErrorResponse(404, MsgEmployeeNotFound)))
          ELSE \E order \in Orders(OwnedTasks(tasks, id)) :
                 Start(w, Done(r, CountResponse(
                     [i \in DOMAIN order |-> tasks[order[i]]])))
    /\ UNCHANGED <<backend, employees, tasks, empSeq, taskSeq, now>>

(***************************************************************************)
(* Tasks: schemas, service and routes.                                     *)
(***************************************************************************)
VALID_STATUSES == {"pending", "in_progress", "completed", "cancelled"}
VALID_PRIORITIES == {"low", "medium", "high", "urgent"}

TaskLoadFields ==
    {"title", "description", "status", "priority", "employee_id", "deadline"}
TaskNullable == {"description", "employee_id", "deadline"}

\* validate.OneOf on status and priority.
OneOfValidAny(json) == TRUE

OneOfValid(json) ==
    /\ "status" \in DOMAIN json =>
          \E v \in VALID_STATUSES : json.status = Some(v)
    /\ "priority" \in DOMAIN json =>
          \E v \in VALID_PRIORITIES : json.priority = Some(v)

\* TaskSchema.load: does it accept the body?
TaskSchemaValid(json) ==
    /\ DOMAIN json \subseteq TaskLoadFields
    /\ "title" \in DOMAIN json
    /\ \A k \in DOMAIN json : json[k] = None => k \in TaskNullable
    /\ OneOfValid(json)

\* TaskSchema.load: the loaded dict, with the load_default values.
TaskSchemaLoadLow(json) ==
    [k \in DOMAIN json \cup {"status", "priority"} |->
        IF k \in DOMAIN json THEN json[k]
        ELSE IF k = "status" THEN Some("pending") ELSE Some("low")]

TaskSchemaLoad(json) ==
    [k \in DOMAIN json \cup {"status", "priority"} |->
        IF k \in DOMAIN json THEN json[k]
        ELSE IF k = "status" THEN Some("pending") ELSE Some("medium")]

\* TaskUpdateSchema.load
TaskUpdateSchemaValid(json) ==
    /\ DOMAIN json \subseteq TaskLoadFields
    /\ \A k \in DOMAIN json : json[k] = None => k \in TaskNullable
    /\ OneOfValid(json)

\* Python truth of an optional int: None and 0 are false.
Truthy(v) == v # None /\ v # Some(0)

\* db.session.get(Employee, v)
EmployeeMissing(emps, v) == v[1] \notin DOMAIN emps

\* Task(...) as create_task builds it.
NewTask(id, data, t1, t2) ==
    [id |-> id,
     title |-> Get(data, "title", None),
     description |-> Get(data, "description", None),
     status |-> Get(data, "status", Some("pending")),
     priority |-> Get(data, "priority", Some("medium")),
     employee_id |-> Get(data, "employee_id", None),
     deadline |-> Get(data, "deadline", None),
     created_at |-> t1,
     updated_at |-> t2]

\* TaskService.create_task before the insert: the error it returns.
create_task_precheck(emps, data) ==
    LET employee_id == Get(data, "employee_id", None)
    IN IF Truthy(employee_id) /\ EmployeeMissing(emps, employee_id)
       THEN MsgEmployeeIdNotFound(employee_id[1])
       ELSE None

\* TaskService.update_task before the setattr loop.
update_task_precheck(tsks, emps, id, data) ==
    IF id \notin DOMAIN tsks THEN MsgTaskNotFound
    ELSE IF "employee_id" \in DOMAIN data /\ Truthy(data.employee_id)
            /\ EmployeeMissing(emps, data.employee_id)
         THEN MsgEmployeeIdNotFound(data.employee_id[1])
         ELSE None

\* Column employee_id, ForeignKey('employees.id'): does the database accept
\* the value?  sqlite does not enforce foreign keys unless the connection
\* sets PRAGMA foreign_keys, which the application never does.
ForeignKeyOk(db, emps, v) ==
    db = "sqlite" \/ v = None \/ v[1] \in DOMAIN emps

\* POST /api/tasks, up to the commit.
create_task(w, json) ==
    /\ CanStart(w)
    /\ LET valid == TaskSchemaValid(json)
           r == Request("create_task", 0, json, << >>)
           error == IF valid
                    THEN create_task_precheck(employees, TaskSchemaLoad(json))
                    ELSE None
       IN Start(w, IF ~valid
                   THEN Done(r, ValidationResponse)
                   ELSE IF error # None
                   THEN Done(r, ErrorResponse(CreateErrorCode(error), error))
                   ELSE r)
    /\ UNCHANGED <<backend, employees, tasks, empSeq, taskSeq, now>>

\* db.session.add(task); db.session.commit(), and the response.
create_task_commit(w) ==
    /\ At(w, "create_task")
    /\ LET data == TaskSchemaLoad(req[w].data)
           id == NextId(backend, tasks, taskSeq)
           fk == MsgError("creating task:", ExcForeignKey)
       IN IF ForeignKeyOk(backend, employees, Get(data, "employee_id", None))
          THEN \E t \in ClockReads(now) :
                 LET row == NewTask(id, data, t, t)
                 IN /\ tasks' = Put(tasks, id, row)
                    /\ now' = t
                    /\ Finish(w, DataResponse(201, row))
          ELSE /\ tasks' = Rollback(tasks,
                     Put(tasks, id, NewTask(id, data, now, now)))
               /\ now' = now
               /\ Finish(w, ErrorResponse(CreateErrorCode(fk), fk))
    /\ taskSeq' = NextSeq(backend, taskSeq)
    /\ hist' = Before
    /\ UNCHANGED <<backend, employees, empSeq, issued>>

\* PUT /api/tasks/<id>, up to the commit.
update_task(w, id, json) ==
    /\ CanStart(w)
    /\ LET valid == TaskUpdateSchemaValid(json)
           error == IF valid
                    THEN update_task_precheck(tasks, employees, id, json)
                    ELSE None
           r == Request("update_task", id, json, << >>)
       IN Start(w, IF ~valid
                   THEN Done(r, ValidationResponse)
                   ELSE IF DOMAIN json = {}
                   THEN Done(r, ErrorResponse(400, MsgNoData))
                   ELSE IF error # None
                   THEN Done(r, ErrorResponse(UpdateErrorCode(error), error))
                   ELSE [r EXCEPT !.loaded = tasks[id]])
    /\ UNCHANGED <<backend, employees, tasks, empSeq, taskSeq, now>>

\* db.session.commit() of update_task, and the response.
update_task_commit(w) ==
    /\ At(w, "update_task")
    /\ LET id == req[w].id
           data == req[w].data
           loaded == req[w].loaded
           stale == MsgError("updating task:", ExcStaleData)
           gone == MsgError("updating task:", ExcObjectDeleted)
           fk == MsgError("updating task:", ExcForeignKey)
       IN IF Changed(loaded, data) = {}
          THEN /\ UNCHANGED <<tasks, now>>
               /\ Finish(w, IF id \in DOMAIN tasks
                            THEN DataResponse(200, tasks[id])
                            ELSE ErrorResponse(500, gone))
          ELSE IF id \notin DOMAIN tasks
          THEN /\ UNCHANGED <<tasks, now>>
               /\ Finish(w, ErrorResponse(UpdateErrorCode(stale), stale))
          ELSE \E t \in ClockReads(now) :
                 LET row == SetAttrs(tasks[id], loaded, data, t)
                     staged == Put(tasks, id, row)
                 IN IF "employee_id" \in Changed(loaded, data)
                         => ForeignKeyOk(backend, employees, row.employee_id)
                    THEN /\ tasks' = staged
                         /\ now' = t
                         /\ Finish(w, DataResponse(200, row))
                    ELSE /\ tasks' = Rollback(tasks, staged)
                         /\ now' = now
                         /\ Finish(w, ErrorResponse(UpdateErrorCode(fk), fk))
    /\ hist' = Before
    /\ UNCHANGED <<backend, employees, empSeq, taskSeq, issued>>

\* DELETE /api/tasks/<id>, up to the commit.
delete_task(w, id) ==
    /\ CanStart(w)
    /\ LET r == Request("delete_task", id, << >>, << >>)
       IN Start(w, IF id \notin DOMAIN tasks
                   THEN Done(r, ErrorResponse(DeleteErrorCode(MsgTaskNotFound),
                                              MsgTaskNotFound))
                   ELSE r)
    /\ UNCHANGED <<backend, employees, tasks, empSeq, taskSeq, now>>

\* db.session.delete(task); db.session.commit(), and the response.
delete_task_commit(w) ==
    /\ At(w, "delete_task")
    /\ tasks' = Remove(tasks, {req[w].id})
    /\ Finish(w, MessageResponse(200))
    /\ hist' = Before
    /\ UNCHANGED <<backend, employees, empSeq, taskSeq, now, issued>>

\* GET /api/tasks/<id>: the response over table tsks.
get_task_response(tsks, id) ==
    IF id \notin DOMAIN tsks
    THEN ErrorResponse(404, MsgTaskIdNotFound(id))
    ELSE DataResponse(200, tsks[id])

get_task(w, id) ==
    /\ CanStart(w)
    /\ Start(w, Done(Request("get_task", id, << >>, << >>),
                     get_task_response(tasks, id)))
    /\ UNCHANGED <<backend, employees, tasks, empSeq, taskSeq, now>>

(***************************************************************************)
(* Lists: query arguments, filters, ordering and pagination.               *)
(***************************************************************************)
\* A string value as the sequence of its characters.
Chars(s) ==
    CASE s = "Engineering" ->
             <<"E", "n", "g", "i", "n", "e", "e", "r", "i", "n", "g">>
      [] s = "Engin" -> <<"E", "n", "g", "i", "n">>
      [] s = "HR" -> <<"H", "R">>
      [] s = "hr" -> <<"h", "r">>
      [] s = "Dev" -> <<"D", "e", "v">>
      [] s = "dev" -> <<"d", "e", "v">>
      [] s = "in" -> <<"i", "n">>
      [] s = "_" -> <<"_">>
      [] s = "" -> << >>

\* lower() of one character.
LowerChar(c) ==
    CASE c = "D" -> "d"
      [] c = "E" -> "e"
      [] c = "H" -> "h"
      [] c = "R" -> "r"
      [] OTHER -> c

LowerChars(cs) == [i \in DOMAIN cs |-> LowerChar(cs[i])]

\* SQL: text LIKE pattern, where % matches any run of characters and _ any
\* one character.
RECURSIVE Like(_, _)
Like(text, pattern) ==
    IF pattern = << >> THEN text = << >>
    ELSE IF Head(pattern) = "%"
    THEN Like(text, Tail(pattern))
         \/ (text # << >> /\ Like(Tail(text), pattern))
    ELSE /\ text # << >>
         /\ Head(pattern) = "_" \/ Head(pattern) = Head(text)
         /\ Like(Tail(text), Tail(pattern))

\* Column.ilike(f'%{value}%'): lower(column) LIKE lower('%value%'); NULL
\* matches nothing.
ILikeContains(col, value) ==
    /\ col # None
    /\ Like(LowerChars(Chars(col[1])),
            <<"%">> \o LowerChars(Chars(value)) \o <<"%">>)

\* request.args.get(name, default, type=int) for an absent argument or the
\* text of an integer.
ArgInt(arg, default) == IF arg = None THEN default ELSE arg[1]

\* Python truth of an optional str: None and '' are false.
StrTruthy(v) == v # None /\ v # Some("")

\* The routes' treatment of page and per_page.
PageArg(arg) ==
    LET page == ArgInt(arg, 1) IN IF page < 1 THEN 1 ELSE page

PerPageArgClamped(arg) ==
    LET per_page == ArgInt(arg, 10)
    IN IF per_page < 1 THEN 1 ELSE IF per_page > 100 THEN 100 ELSE per_page

PerPageArg(arg) ==
    LET per_page == ArgInt(arg, 10)
    IN IF per_page < 1 \/ per_page > 100 THEN 10 ELSE per_page

\* EmployeeService.get_all_employees: the filtered query.
EmployeeQuery(emps, department, position) ==
    {i \in DOMAIN emps :
        /\ StrTruthy(department) =>
              ILikeContains(emps[i].department, department[1])
        /\ StrTruthy(position) =>
              ILikeContains(emps[i].position, position[1])}

\* TaskService.get_all_tasks: the filtered query.
TaskQuery(tsks, status, priority, employee_id) ==
    {t \in DOMAIN tsks :
        /\ StrTruthy(status) => tsks[t].status = status
        /\ StrTruthy(priority) => tsks[t].priority = priority
        /\ Truthy(employee_id) => tsks[t].employee_id = employee_id}

\* query.order_by(created_at.desc()): the orders the database may return
\* rows `ids` in; rows with equal created_at come in any order.
OrderByCreatedAtAny(rows, ids) == Orders(ids)
OrderByCreatedAtDesc(rows, ids) ==
    {s \in Orders(ids) :
        \A i, j \in DOMAIN s :
            i < j => rows[s[i]].created_at >= rows[s[j]].created_at}

\* ceil(total / per_page)
CeilDiv(a, b) == IF a % b = 0 THEN a \div b ELSE (a \div b) + 1

\* Pagination.has_next
HasNext(page, pages) == page < pages

\* query.paginate(page=page, per_page=per_page, error_out=False) over the
\* ordered rows, and the pagination_info the services build from it.
Paginate(order, page, per_page) ==
    LET offset == (page - 1) * per_page
        rest == Len(order) - offset
        n == IF rest < 0 THEN 0 ELSE IF rest < per_page THEN rest ELSE per_page
        total == Len(order)
        pages == IF total = 0 THEN 0 ELSE CeilDiv(total, per_page)
    IN [items |-> [i \in 1..n |-> order[offset + i]],
        info |-> [page |-> page, per_page |-> per_page, total |-> total,
                  pages |-> pages, has_next |-> HasNext(page, pages),
                  has_prev |-> page > 1]]

\* jsonify({'status': 'success', 'data': result, 'pagination': info}), 200
ListResponse(data, info) ==
    [code |-> 200,
     body |-> [status |-> "success", data |-> data, pagination |-> info]]

\* A request that only reads is taken like any other; MaxReads of them may
\* follow the MaxRequests requests of a behaviour.
CanRead(w) ==
    /\ req[w].pc = "idle"
    /\ \A v \in Workers : req[v].pc = "idle" => ~WorkerBefore(v, w)
    /\ issued < MaxRequests + MaxReads

\* GET /api/employees
get_employees(w, args) ==
    /\ CanRead(w)
    /\ LET page == PageArg(args.page)
           per_page == PerPageArg(args.per_page)
           found == EmployeeQuery(employees, args.department, args.position)
           r == Request("get_employees", 0, args, << >>)
       IN \E order \in OrderByCreatedAtDesc(employees, found) :
            LET p == Paginate(order, page, per_page)
            IN Start(w, Done(r,
                 IF \E i \in DOMAIN p.items :
                        EmployeeSchemaDumpRaises(tasks, p.items[i])
                 THEN ErrorResponse(500, MsgError("retrieving employees:",
                                                  ExcNotIterable))
                 ELSE ListResponse(
                          [i \in DOMAIN p.items |->
                              EmployeeDump(employees[p.items[i]])],
                          p.info)))
    /\ UNCHANGED <<backend, employees, tasks, empSeq, taskSeq, now>>

\* task_schema.dump(task) with result['employee'] when task.assigned_employee
\* is there.
TaskDump(emps, row) ==
    IF row.employee_id # None /\ row.employee_id[1] \in DOMAIN emps
    THEN LET e == emps[row.employee_id[1]]
         IN [k \in DOMAIN row \cup {"employee"} |->
                IF k = "employee"
                THEN [id |-> e.id, name |-> <<e.first_name, e.last_name>>,
                      email |-> e.email]
                ELSE row[k]]
    ELSE row

\* GET /api/tasks
get_tasks(w, args) ==
    /\ CanRead(w)
    /\ LET page == PageArg(args.page)
           per_page == PerPageArg(args.per_page)
           found == TaskQuery(tasks, args.status, args.priority,
                              args.employee_id)
           r == Request("get_tasks", 0, args, << >>)
       IN \E order \in OrderByCreatedAtDesc(tasks, found) :
            LET p == Paginate(order, page, per_page)
            IN Start(w, Done(r, ListResponse(
                   [i \in DOMAIN p.items |->
                       TaskDump(employees, tasks[p.items[i]])],
                   p.info)))
    /\ UNCHANGED <<backend, employees, tasks, empSeq, taskSeq, now>>

(***************************************************************************)
(* The request bodies the model draws from.                                *)
(***************************************************************************)
EmployeeJson ==
    {[first_name |-> Some("Ann"), last_name |-> Some("Lee"),
      email |-> Some(e), department |-> Some("Engineering")] : e \in Emails}
    \cup {[first_name |-> Some("Ann")]}

EmployeeUpdateJson ==
    {[email |-> Some(e), first_name |-> Some("Bob")] : e \in Emails}
    \cup {[email |-> Some("b@x.io")], [department |-> None],
          [first_name |-> None], << >>}

EmployeeIdJson == {None} \cup {Some(i) : i \in IdInputs}

TaskJson ==
    {[title |-> Some("Fix"), employee_id |-> v] : v \in EmployeeIdJson}
    \cup {[title |-> Some("Fix"), status |-> Some("done")],
          [title |-> Some("Fix"), status |-> Some("completed"),
           priority |-> Some("high")]}

TaskUpdateJson ==
    {[employee_id |-> v] : v \in EmployeeIdJson}
    \cup {[status |-> Some("completed")], [status |-> Some("done")], << >>}

\* Bodies and query arguments of the list scenarios.
ListEmployeeJson ==
    {[first_name |-> Some("Ann"), last_name |-> Some("Lee"),
      email |-> Some("a@x.io"), department |-> Some("Engineering"),
      position |-> Some("Dev")],
     [first_name |-> Some("Ann"), last_name |-> Some("Lee"),
      email |-> Some("b@x.io"), department |-> Some("HR")],
     [first_name |-> Some("Ann"), last_name |-> Some("Lee"),
      email |-> Some("c@x.io")]}

ListTaskJson ==
    {[title |-> Some("Fix")],
     [title |-> Some("Fix"), status |-> Some("completed"),
      priority |-> Some("high")],
     [title |-> Some("Fix"), employee_id |-> Some(1)],
     [title |-> Some("Fix"), employee_id |-> Some(0)]}

PageInputs == {Some(0), Some(1), Some(2)}
PerPageInputs == {Some(0), Some(1), Some(2), Some(100), Some(101)}

EmployeeListArgs ==
    {[page |-> pg, per_page |-> pp, department |-> None, position |-> None] :
        pg \in PageInputs, pp \in PerPageInputs}
    \cup {[page |-> None, per_page |-> None, department |-> d,
           position |-> ps] :
            d \in {None, Some("Engin"), Some("hr"), Some("in"), Some("_")},
            ps \in {None, Some("dev")}}

TaskListArgs ==
    {[page |-> pg, per_page |-> pp, status |-> None, priority |-> None,
      employee_id |-> None] :
        pg \in PageInputs, pp \in {Some(0), Some(1), Some(2)}}
    \cup {[page |-> None, per_page |-> None, status |-> st, priority |-> pr,
           employee_id |-> e] :
            st \in {None, Some("pending"), Some("completed")},
            pr \in {None, Some("high")},
            e \in {None, Some(0), Some(1)}}

\* Rows and bodies of the scenarios that start from a filled database: two
\* employees, a task of the first and an unassigned task.
SeededEmployees ==
    LET json(e) == [first_name |-> Some("Ann"), last_name |-> Some("Lee"),
                    email |-> Some(e), department |-> Some("Engineering")]
    IN Put(Put(<< >>, 1, NewEmployee(1, json("a@x.io"), 0, 0)),
           2, NewEmployee(2, json("b@x.io"), 0, 0))

SeededTasks ==
    Put(Put(<< >>, 1, NewTask(1, TaskSchemaLoad(
                [title |-> Some("Fix"), employee_id |-> Some(1)]), 0, 0)),
        2, NewTask(2, TaskSchemaLoad([title |-> Some("Fix")]), 0, 0))

SeededEmployeeUpdateJson ==
    {[email |-> Some("c@x.io")],
     [email |-> Some("c@x.io"), first_name |-> Some("Bob")],
     [email |-> Some("a@x.io"), first_name |-> Some("Bob")]}

SeededTaskJson ==
    {[title |-> Some("Fix"), employee_id |-> Some(i)] : i \in PathIds}

SeededTaskUpdateJson ==
    {[employee_id |-> v] : v \in {None, Some(1), Some(2)}}
    \cup {[status |-> Some("completed")]}

(***************************************************************************)
(* The system.                                                             *)
(***************************************************************************)
Init ==
    /\ backend \in Backends
    /\ employees = << >>
    /\ tasks = << >>
    /\ empSeq = 0
    /\ taskSeq = 0
    /\ now = 0
    /\ req = [w \in Workers |-> Idle]
    /\ last = Idle
    /\ hist = [employees |-> << >>, tasks |-> << >>, created |-> << >>]
    /\ issued = 0

Next ==
    \/ \E w \in Workers, json \in EmployeeJson : create_employee(w, json)
    \/ \E w \in Workers : create_employee_commit(w)
    \/ \E w \in Workers, id \in PathIds, json \in EmployeeUpdateJson :
          update_employee(w, id, json)
    \/ \E w \in Workers : update_employee_commit(w)
    \/ \E w \in Workers, id \in PathIds : delete_employee(w, id)
    \/ \E w \in Workers : delete_employee_commit(w)
    \/ \E w \in Workers, id \in PathIds : get_employee(w, id)
    \/ \E w \in Workers, id \in PathIds : get_employee_tasks(w, id)
    \/ \E w \in Workers, json \in TaskJson : create_task(w, json)
    \/ \E w \in Workers : create_task_commit(w)
    \/ \E w \in Workers, id \in PathIds, json \in TaskUpdateJson :
          update_task(w, id, json)
    \/ \E w \in Workers : update_task_commit(w)
    \/ \E w \in Workers, id \in PathIds : delete_task(w, id)
    \/ \E w \in Workers : delete_task_commit(w)
    \/ \E w \in Workers, id \in PathIds : get_task(w, id)

Spec == Init /\ [][Next]_vars

\* The list scenarios: employees and tasks are created, and listed.
NextList ==
    \/ \E w \in Workers, json \in ListEmployeeJson : create_employee(w, json)
    \/ \E w \in Workers : create_employee_commit(w)
    \/ \E w \in Workers, json \in ListTaskJson : create_task(w, json)
    \/ \E w \in Workers : create_task_commit(w)
    \/ \E w \in Workers, args \in EmployeeListArgs : get_employees(w, args)
    \/ \E w \in Workers, args \in TaskListArgs : get_tasks(w, args)

SpecList == Init /\ [][NextList]_vars

\* The scenarios on a filled database: the state after four creates (two
\* employees, then two tasks) answered within one reading of the clock.
InitSeeded ==
    /\ backend \in Backends
    /\ employees = SeededEmployees
    /\ tasks = SeededTasks
    /\ empSeq = 2
    /\ taskSeq = 2
    /\ now = 0
    /\ req = [w \in Workers |-> Idle]
    /\ last = Idle
    /\ hist = [employees |-> SeededEmployees, tasks |-> SeededTasks,
               created |-> <<1, 2>>]
    /\ issued = 0

NextSeeded ==
    \/ \E w \in Workers, id \in PathIds, json \in SeededEmployeeUpdateJson :
          update_employee(w, id, json)
    \/ \E w \in Workers : update_employee_commit(w)
    \/ \E w \in Workers, id \in PathIds : delete_employee(w, id)
    \/ \E w \in Workers : delete_employee_commit(w)
    \/ \E w \in Workers, id \in PathIds : get_employee_tasks(w, id)
    \/ \E w \in Workers, json \in SeededTaskJson : create_task(w, json)
    \/ \E w \in Workers : create_task_commit(w)
    \/ \E w \in Workers, id \in PathIds, json \in SeededTaskUpdateJson :
          update_task(w, id, json)
    \/ \E w \in Workers : update_task_commit(w)
    \/ \E w \in Workers, id \in PathIds : delete_task(w, id)
    \/ \E w \in Workers : delete_task_commit(w)

SpecSeeded == InitSeeded /\ [][NextSeeded]_vars

(***************************************************************************)
(* Properties.  `last` is the request answered last, `hist` holds the      *)
(* tables as they were at the step that answered it, and the tables are    *)
(* as that step left them: no step changes a table without answering.      *)
(***************************************************************************)
EmailCount(emps, email) ==
    Cardinality({i \in DOMAIN emps : emps[i].email = email})

LastIsError == last.resp.body.status = "error"
LastIsSuccess == last.resp.body.status = "success"

\* C1: in every reachable state, whatever the interleaving of employee
\* creates, updates and deletes, no two stored employees have the same email.
C1_EmailUnique ==
    \A i, j \in DOMAIN employees :
        i # j => employees[i].email # employees[j].email

\* Two employees are stored and the unique constraint has just refused a
\* flush whose pre-check had passed.
C1_Witness ==
    /\ Cardinality(DOMAIN employees) = 2
    /\ LastIsError
    /\ last.resp.body.message = MsgEmailIntegrity

\* C2: a create-employee request that is answered while an employee with its
\* email is stored is answered 400 with a duplicate-email error, adds no
\* record, and leaves exactly one employee with that email.
C2_DuplicateCreateRejected ==
    (/\ last.op = "create_employee"
     /\ EmployeeSchemaValid(last.data)
     /\ EmailExists(hist.employees, last.data.email))
    => /\ last.resp.code = 400
       /\ LastIsError
       /\ last.resp.body.message \in {MsgEmailExists, MsgEmailIntegrity}
       /\ employees = hist.employees
       /\ EmailCount(employees, last.data.email) = 1

\* A create was refused by the pre-check for an email that is stored.
C2_Witness ==
    /\ last.op = "create_employee"
    /\ EmployeeSchemaValid(last.data)
    /\ EmailExists(hist.employees, last.data.email)
    /\ last.resp = ErrorResponse(400, MsgEmailExists)

\* C3: of create-employee requests that have passed the pre-check with the
\* same email, the one that commits while the email is unused succeeds (one
\* employee with the email is stored; the answer is 201 whenever no stored
\* task already references the id the new employee gets); one that commits
\* when the email is stored is answered 400 with the duplicate-email error
\* of the unique constraint, and adds nothing.
C3_RacingCreates ==
    [][\A w \in Workers :
        (At(w, "create_employee") /\ req'[w] = Idle) =>
            IF EmailExists(employees, req[w].data.email)
            THEN /\ last'.resp = ErrorResponse(400, MsgEmailIntegrity)
                 /\ employees' = employees
            ELSE /\ (\A i \in DOMAIN employees' \ DOMAIN employees :
                        OwnedTasks(tasks, i) = {})
                    => last'.resp.code = 201
                 /\ EmailCount(employees', req[w].data.email) = 1
                 /\ Cardinality(DOMAIN employees') =
                        Cardinality(DOMAIN employees) + 1]_vars

\* Two requests were served, both creates with one email: the first to
\* commit stored its employee and the second was refused at its commit.
C3_Witness ==
    /\ issued = 2
    /\ last.op = "create_employee"
    /\ last.resp = ErrorResponse(400, MsgEmailIntegrity)
    /\ EmailCount(employees, last.data.email) = 1

\* C4: an update of a stored employee whose payload email differs from the
\* employee's email as the handler read it, and is the email of another
\* stored employee when the request is answered, is answered 400 with a
\* duplicate-email error, and leaves every employee record as it was, the
\* other fields of the payload included.
C4_DuplicateUpdateRejected ==
    [][/\ \A w \in Workers :
            (/\ At(w, "update_employee") /\ req'[w] = Idle
             /\ req[w].id \in DOMAIN employees
             /\ "email" \in DOMAIN req[w].data
             /\ req[w].data.email # req[w].loaded.email
             /\ \E j \in DOMAIN employees :
                    j # req[w].id /\ employees[j].email = req[w].data.email)
            => /\ last'.resp = ErrorResponse(400, MsgEmailIntegrity)
               /\ employees' = employees
       /\ (/\ issued' = issued + 1 /\ req' = req
           /\ last'.op = "update_employee"
           /\ EmployeeUpdateSchemaValid(last'.data)
           /\ last'.id \in DOMAIN employees
           /\ "email" \in DOMAIN last'.data
           /\ last'.data.email # employees[last'.id].email
           /\ \E j \in DOMAIN employees :
                  j # last'.id /\ employees[j].email = last'.data.email)
          => /\ last'.resp = ErrorResponse(400, MsgEmailExists)
             /\ employees' = employees]_vars

\* An update that carried another employee's email and a first name was
\* refused, both employees being stored.
C4_Witness ==
    /\ last.op = "update_employee"
    /\ last.resp = ErrorResponse(400, MsgEmailExists)
    /\ "first_name" \in DOMAIN last.data
    /\ last.id \in DOMAIN employees
    /\ \E j \in DOMAIN employees :
           j # last.id /\ employees[j].email = last.data.email

\* C5: after a delete-employee request is answered 200, the employee is not
\* stored, every task that referenced it just before is not stored and
\* fetching its id answers 404, and no stored task references the employee.
C5_DeleteCascades ==
    (last.op = "delete_employee" /\ last.resp.code = 200)
    => /\ last.id \notin DOMAIN employees
       /\ \A t \in DOMAIN hist.tasks :
              hist.tasks[t].employee_id = Some(last.id)
              => /\ t \notin DOMAIN tasks
                 /\ get_task_response(tasks, t).code = 404
       /\ \A t \in DOMAIN tasks : tasks[t].employee_id # Some(last.id)

\* An employee that tasks referenced was deleted.
C5_Witness ==
    /\ last.op = "delete_employee"
    /\ last.resp.code = 200
    /\ last.id \in DOMAIN hist.employees
    /\ \E t \in DOMAIN hist.tasks : hist.tasks[t].employee_id = Some(last.id)

\* C6: a create-task request whose employee_id is non-null and is not the
\* id of a stored employee is answered 400 and persists no task.
C6_InvalidEmployeeRejected ==
    (/\ last.op = "create_task"
     /\ TaskSchemaValid(last.data)
     /\ "employee_id" \in DOMAIN last.data
     /\ last.data.employee_id # None
     /\ last.data.employee_id[1] \notin DOMAIN hist.employees)
    => /\ last.resp.code = 400
       /\ tasks = hist.tasks

\* C7: right after a successful task create or update, the stored task's
\* employee_id is null or the id of a stored employee.
C7_EmployeeIdReferencesEmployee ==
    (last.op \in {"create_task", "update_task"} /\ LastIsSuccess)
    => LET id == last.resp.body.data.id
       IN id \in DOMAIN tasks
          => \/ tasks[id].employee_id = None
             \/ tasks[id].employee_id[1] \in DOMAIN employees

\* C8: PUT /api/tasks/<id> with a payload the schema accepts: when the task
\* is stored and the payload's non-null employee_id is no stored employee's
\* id the answer is 400, and the answer is 404 exactly when the task is not
\* stored.
C8_UpdateTaskCodes ==
    (/\ last.op = "update_task"
     /\ TaskUpdateSchemaValid(last.data)
     /\ DOMAIN last.data # {})
    => /\ (/\ last.id \in DOMAIN hist.tasks
           /\ "employee_id" \in DOMAIN last.data
           /\ last.data.employee_id # None
           /\ last.data.employee_id[1] \notin DOMAIN hist.employees)
          => last.resp.code = 400
       /\ last.resp.code = 404 <=> last.id \notin DOMAIN hist.tasks

\* C9: a request that is answered with an error leaves both tables exactly
\* as they were, so that every read gives what it gave before.
C9_ErrorLeavesTables ==
    LastIsError
    => /\ employees = hist.employees
       /\ tasks = hist.tasks
       /\ \A id \in PathIds :
            /\ get_employee_response(employees, tasks, id) =
                   get_employee_response(hist.employees, hist.tasks, id)
            /\ get_task_response(tasks, id) =
                   get_task_response(hist.tasks, id)

\* C10: every successful create gives the employee an id that no employee
\* created before it had, deleted ones included.
C10_IdNeverReused ==
    \A i, j \in 1..Len(hist.created) :
        i # j => hist.created[i] # hist.created[j]

\* The successful commit of an update by worker w: the row it updates.
UpdateCommitted(w, op) ==
    At(w, op) /\ req'[w] = Idle /\ last'.resp.code = 200

\* Row `id` of table rows' differs from rows only in the payload's fields
\* and updated_at, and no other row differs.
UpdateFrame(rows, rowsAfter, id, data) ==
    /\ id \in DOMAIN rows
    /\ DOMAIN rowsAfter = DOMAIN rows
    /\ \A j \in DOMAIN rows : j # id => rowsAfter[j] = rows[j]
    /\ \A k \in DOMAIN rows[id] \ (DOMAIN data \cup {"updated_at"}) :
           rowsAfter[id][k] = rows[id][k]

\* C11: a successful update of an employee or a task leaves every field
\* that is absent from the payload, the id and created_at among them, as it
\* was, leaves every other record and the other table as they were, and,
\* when the record is still as the handler read it, gives every field of the
\* payload the payload's value.
C11_UpdateFrame ==
    [][\A w \in Workers :
        /\ UpdateCommitted(w, "update_employee") =>
              /\ UpdateFrame(employees, employees', req[w].id, req[w].data)
              /\ tasks' = tasks
              /\ employees[req[w].id] = req[w].loaded =>
                    \A k \in DOMAIN req[w].data :
                        employees'[req[w].id][k] = req[w].data[k]
        /\ UpdateCommitted(w, "update_task") =>
              /\ UpdateFrame(tasks, tasks', req[w].id, req[w].data)
              /\ employees' = employees
              /\ tasks[req[w].id] = req[w].loaded =>
                    \A k \in DOMAIN req[w].data :
                        tasks'[req[w].id][k] = req[w].data[k]]_vars

\* An update whose payload holds the department alone set it to null on one
\* of two stored employees, whose first name stayed.
C11_Witness ==
    /\ last.op = "update_employee"
    /\ last.resp.code = 200
    /\ DOMAIN last.data = {"department"}
    /\ Cardinality(DOMAIN employees) = 2
    /\ employees[last.id].department = None
    /\ hist.employees[last.id].department # None
    /\ employees[last.id].first_name = hist.employees[last.id].first_name

\* C12: every successful update of an employee or a task leaves the
\* record's updated_at strictly later than it was.
C12_UpdatedAtLater ==
    [][\A w \in Workers :
        /\ UpdateCommitted(w, "update_employee") =>
              employees'[req[w].id].updated_at
                  > employees[req[w].id].updated_at
        /\ UpdateCommitted(w, "update_task") =>
              tasks'[req[w].id].updated_at > tasks[req[w].id].updated_at]_vars

\* The request a step starts: answered in the step, or left with its worker.
Started ==
    IF req' = req THEN last'
    ELSE req'[CHOOSE w \in Workers : req'[w] # req[w]]

\* Request r addresses, by id, an employee or a task that is not stored, with
\* a body its schema accepts.
AddressesMissing(r) ==
    \/ /\ r.op \in {"get_employee", "delete_employee", "get_employee_tasks"}
       /\ r.id \notin DOMAIN employees
    \/ /\ r.op = "update_employee"
       /\ EmployeeUpdateSchemaValid(r.data) /\ DOMAIN r.data # {}
       /\ r.id \notin DOMAIN employees
    \/ /\ r.op \in {"get_task", "delete_task"}
       /\ r.id \notin DOMAIN tasks
    \/ /\ r.op = "update_task"
       /\ TaskUpdateSchemaValid(r.data) /\ DOMAIN r.data # {}
       /\ r.id \notin DOMAIN tasks

\* C13: a get, update, delete or list-tasks request for an id that is not
\* stored when the handler looks it up is answered 404 with a not-found
\* message in that step, and both tables stay as they were; this includes an
\* employee update whose payload carries the email of a stored employee.
C13_NotFound ==
    [][(issued' = issued + 1 /\ AddressesMissing(Started))
        => /\ req' = req
           /\ last'.resp.code = 404
           /\ LastIsError'
           /\ HasNotFound(last'.resp.body.message)
           /\ employees' = employees
           /\ tasks' = tasks]_vars

\* An update of an employee id that is not stored, carrying the email of a
\* stored employee, was answered 404.
C13_Witness ==
    /\ last.op = "update_employee"
    /\ last.resp.code = 404
    /\ last.id \notin DOMAIN employees
    /\ "email" \in DOMAIN last.data
    /\ EmailExists(employees, last.data.email)

\* C19: a task created from a body without status is stored with status
\* pending, one without priority with priority medium, and a status or
\* priority in the body is stored as given; the response shows the same.
C19_TaskDefaults ==
    (last.op = "create_task" /\ last.resp.code = 201)
    => LET row == tasks[last.resp.body.data.id]
       IN /\ row = last.resp.body.data
          /\ row.status = IF "status" \in DOMAIN last.data
                          THEN last.data.status ELSE Some("pending")
          /\ row.priority = IF "priority" \in DOMAIN last.data
                            THEN last.data.priority ELSE Some("medium")

\* Two tasks are stored: one created without status and priority, and the
\* one just created with status completed and priority high.
C19_Witness ==
    /\ last.op = "create_task"
    /\ last.resp.code = 201
    /\ "status" \in DOMAIN last.data
    /\ last.data.status = Some("completed")
    /\ tasks[last.resp.body.data.id].priority = Some("high")
    /\ \E t \in DOMAIN tasks :
          tasks[t].status = Some("pending") /\ tasks[t].priority = Some("medium")

\* A task body carries a status or a priority that is not one of the
\* enumerated values.
CarriesInvalidChoice(data) ==
    \/ "status" \in DOMAIN data
       /\ \A v \in VALID_STATUSES : data.status # Some(v)
    \/ "priority" \in DOMAIN data
       /\ \A v \in VALID_PRIORITIES : data.priority # Some(v)

\* C20: every stored task has one of the four statuses and one of the four
\* priorities, and a task create or update whose body carries another value
\* is answered 400 and leaves both tables as they were.
C20_TaskEnums ==
    /\ \A t \in DOMAIN tasks :
          /\ \E v \in VALID_STATUSES : tasks[t].status = Some(v)
          /\ \E v \in VALID_PRIORITIES : tasks[t].priority = Some(v)
    /\ (last.op \in {"create_task", "update_task"}
        /\ CarriesInvalidChoice(last.data))
       => /\ last.resp.code = 400
          /\ LastIsError
          /\ tasks = hist.tasks
          /\ employees = hist.employees

\* An update of a stored task with status "done" was refused, after the task
\* was created with the default status.
C20_Witness ==
    /\ last.op = "update_task"
    /\ last.data = [status |-> Some("done")]
    /\ last.resp = ValidationResponse
    /\ last.id \in DOMAIN tasks
    /\ tasks[last.id].status = Some("pending")

(***************************************************************************)
(* Properties of the lists.  A list is answered in the step that reads the *)
(* tables, so that while `last` is a list the tables are the ones it read. *)
(***************************************************************************)
LastIsList == last.op \in {"get_employees", "get_tasks"}

\* The effective page and page size of the list in `last`, the stored rows
\* it ranged over and the ids of those that match its filters.
ListPage == PageArg(last.data.page)
ListPerPage == PerPageArg(last.data.per_page)
ListRows == IF last.op = "get_employees" THEN hist.employees ELSE hist.tasks
ListMatching ==
    IF last.op = "get_employees"
    THEN EmployeeQuery(hist.employees, last.data.department,
                       last.data.position)
    ELSE TaskQuery(hist.tasks, last.data.status, last.data.priority,
                   last.data.employee_id)

\* C14: a list request with a page and a per_page argument is answered with
\* the page max(page, 1) and the page size per_page clamped into 1..100,
\* whatever the two integers are.
C14_PaginationClamped ==
    (LastIsList /\ LastIsSuccess
     /\ last.data.page # None /\ last.data.per_page # None)
    => LET n == last.data.per_page[1]
           clamped == IF n < 1 THEN 1 ELSE IF n > 100 THEN 100 ELSE n
       IN /\ last.resp.body.pagination.page =
                 (IF last.data.page[1] < 1 THEN 1 ELSE last.data.page[1])
          /\ last.resp.body.pagination.per_page = clamped

\* C14, as the routes have it: the page is max(page, 1); a per_page within
\* 1..100 is kept and any other per_page is replaced by the default 10; and
\* no list fails for its pagination arguments: the only list that fails is
\* an employee list that matches an employee who has a task.
C14_PaginationDefaulted ==
    /\ (LastIsList /\ LastIsSuccess
        /\ last.data.page # None /\ last.data.per_page # None)
       => LET n == last.data.per_page[1]
          IN /\ last.resp.body.pagination.page =
                    (IF last.data.page[1] < 1 THEN 1 ELSE last.data.page[1])
             /\ last.resp.body.pagination.per_page =
                    (IF n \in 1..100 THEN n ELSE 10)
    /\ (LastIsList /\ ~LastIsSuccess)
       => /\ last.op = "get_employees"
          /\ \E i \in ListMatching : OwnedTasks(hist.tasks, i) # {}

\* A list asked for page 0 with a per_page outside 1..100 was answered.
C14_Witness ==
    /\ LastIsList /\ LastIsSuccess
    /\ last.data.page = Some(0)
    /\ last.data.per_page \in {Some(0), Some(101)}
    /\ Len(last.resp.body.data) > 0

\* C15: a list with effective page p and page size s returns the records at
\* positions (p-1)*s+1 .. p*s of the matching records ordered newest first,
\* with total the number of matching records, pages = ceil(total/s),
\* has_next = (p < pages) and has_prev = (p > 1).
C15_PageAndMetadata ==
    LastIsList
    => /\ LastIsSuccess
       /\ LET p == ListPage
              s == ListPerPage
              total == Cardinality(ListMatching)
              data == last.resp.body.data
              info == last.resp.body.pagination
              positions == {k \in ((p - 1) * s + 1)..(p * s) : k <= total}
          IN /\ info.page = p /\ info.per_page = s
             /\ info.total = total
             /\ info.pages = (total + s - 1) \div s
             /\ info.has_next = (p < info.pages)
             /\ info.has_prev = (p > 1)
             /\ Len(data) = Cardinality(positions)
             /\ \E order \in OrderByCreatedAtDesc(ListRows, ListMatching) :
                    \A i \in DOMAIN data :
                        data[i].id = order[(p - 1) * s + i]

\* C16: every task a task list returns has the status, the priority and the
\* employee_id of each filter the request supplies, and total is the number
\* of stored tasks that have them all.
C16_TaskFiltersExact ==
    (last.op = "get_tasks" /\ LastIsSuccess)
    => LET f == last.data
           Matches(row) ==
               /\ f.status # None => row.status = f.status
               /\ f.priority # None => row.priority = f.priority
               /\ f.employee_id # None => row.employee_id = f.employee_id
           data == last.resp.body.data
       IN /\ \A i \in DOMAIN data : Matches(data[i])
          /\ last.resp.body.pagination.total =
                 Cardinality({t \in DOMAIN hist.tasks : Matches(hist.tasks[t])})

\* C17: the employees an employee list with a department (position) filter
\* matches are exactly the stored employees whose department (position)
\* contains the filter string, letter case aside.
C17_EmployeeFiltersSubstring ==
    (last.op = "get_employees" /\ LastIsSuccess)
    => LET f == last.data
           ContainsIgnoringCase(col, value) ==
               /\ col # None
               /\ LET text == LowerChars(Chars(col[1]))
                      sub == LowerChars(Chars(value))
                  IN \E k \in 0..(Len(text) - Len(sub)) :
                         \A n \in 1..Len(sub) : text[k + n] = sub[n]
           Matches(row) ==
               /\ f.department # None =>
                     ContainsIgnoringCase(row.department, f.department[1])
               /\ f.position # None =>
                     ContainsIgnoringCase(row.position, f.position[1])
           expected == {i \in DOMAIN hist.employees :
                           Matches(hist.employees[i])}
           data == last.resp.body.data
       IN /\ last.resp.body.pagination.total = Cardinality(expected)
          /\ \A i \in DOMAIN data : data[i].id \in expected

\* C18: in a list result a record is never listed behind one that was
\* created earlier: within the page created_at does not increase, every
\* matching record created later than a listed one stands at an earlier
\* position of the whole list, and every one created earlier at a later one.
C18_NewestFirst ==
    (LastIsList /\ LastIsSuccess)
    => LET data == last.resp.body.data
           before(i) == (ListPage - 1) * ListPerPage + i - 1
           later(i) == {m \in ListMatching :
                           ListRows[m].created_at > data[i].created_at}
           earlier(i) == {m \in ListMatching :
                             ListRows[m].created_at < data[i].created_at}
       IN /\ \A i, j \in DOMAIN data :
                 i < j => data[i].created_at >= data[j].created_at
          /\ \A i \in DOMAIN data :
                 /\ Cardinality(later(i)) <= before(i)
                 /\ Cardinality(earlier(i)) <=
                        Cardinality(ListMatching) - before(i) - 1

\* The second page, of size one, of three employees created at two or more
\* different instants was listed: an older employee follows a newer one.
C18_Witness ==
    /\ last.op = "get_employees"
    /\ LastIsSuccess
    /\ ListPage = 2 /\ ListPerPage = 1
    /\ Len(last.resp.body.data) = 1
    /\ Cardinality(ListMatching) = 3
    /\ \E m \in ListMatching :
          ListRows[m].created_at > last.resp.body.data[1].created_at

(***************************************************************************)
(* Properties of the reads, the responses and the deletes.                 *)
(***************************************************************************)

\* C21: the tasks of an employee, asked for an id that is stored, are
\* exactly the stored tasks whose employee_id is that id, each once and as
\* stored, whatever creates, reassignments and deletes came before; asked
\* for an id that is not stored, the answer is not-found (404).
C21_EmployeeTasksExact ==
    last.op = "get_employee_tasks" =>
        IF last.id \in DOMAIN hist.employees
        THEN /\ last.resp.code = 200
             /\ LastIsSuccess
             /\ LET data == last.resp.body.data
                    ids == {data[i].id : i \in DOMAIN data}
                IN /\ ids = {t \in DOMAIN hist.tasks :
                                hist.tasks[t].employee_id = Some(last.id)}
                   /\ Cardinality(ids) = Len(data)
                   /\ \A i \in DOMAIN data : data[i] = hist.tasks[data[i].id]
                   /\ last.resp.body.count = Len(data)
        ELSE last.resp = ErrorResponse(404, MsgEmployeeNotFound)

\* The tasks of employee 2 were listed after task 1 had been reassigned from
\* employee 1 to employee 2 and task 2 had been deleted.
C21_Witness ==
    /\ last.op = "get_employee_tasks"
    /\ last.id = 2
    /\ LastIsSuccess
    /\ Len(last.resp.body.data) = 1
    /\ last.resp.body.data[1].id = 1
    /\ 2 \notin DOMAIN hist.tasks

\* The operations that only read.
Reads ==
    {"get_employee", "get_employee_tasks", "get_task", "get_employees",
     "get_tasks"}

\* C22: a step that answers a read leaves every stored row as it was,
\* updated_at included; and a get of an employee that is answered next after
\* a get of the same id, no other request having been answered in between,
\* gets the same response.
C22_ReadsChangeNothing ==
    [][/\ (issued' = issued + 1 /\ last'.op \in Reads)
          => employees' = employees /\ tasks' = tasks
       /\ (/\ issued' = issued + 1 /\ req' = req
           /\ last.op = "get_employee" /\ last'.op = "get_employee"
           /\ last'.id = last.id)
          => last'.resp = last.resp]_vars

\* A stored employee was fetched as the third request, and the row is as the
\* response shows it.
C22_Witness ==
    /\ last.op = "get_employee"
    /\ issued = 3
    /\ LastIsSuccess
    /\ last.id \in DOMAIN employees
    /\ employees = hist.employees
    /\ \A k \in DOMAIN employees[last.id] :
           last.resp.body.data[k] = employees[last.id][k]

\* A request has been answered.
Answered == last.pc = "done"

\* C23: every response has status success or error; a success response
\* carries a data field and an error response a message field.
C23_ResponseEnvelope ==
    Answered
    => /\ last.resp.body.status \in {"success", "error"}
       /\ LastIsSuccess => "data" \in DOMAIN last.resp.body
       /\ LastIsError => "message" \in DOMAIN last.resp.body

\* C23, as the routes have it: every response has status success or error;
\* an error response carries a message; a success response carries data,
\* except that of a delete, which carries a message and no data.
C23_ResponseEnvelopeButDelete ==
    Answered
    => LET body == last.resp.body
           isDelete == last.op \in {"delete_employee", "delete_task"}
       IN /\ body.status \in {"success", "error"}
          /\ LastIsError => "message" \in DOMAIN body
          /\ (LastIsSuccess /\ ~isDelete) => "data" \in DOMAIN body
          /\ (LastIsSuccess /\ isDelete)
             => "message" \in DOMAIN body /\ "data" \notin DOMAIN body

\* A delete of a stored task was answered with success.
C23_Witness ==
    /\ last.op = "delete_task"
    /\ LastIsSuccess
    /\ last.id \in DOMAIN hist.tasks
    /\ last.id \notin DOMAIN tasks

\* The texts of the exceptions the database layer and the serialiser raise.
ExceptionTexts ==
    {ExcStaleData, ExcUnique, ExcForeignKey, ExcNotIterable, ExcObjectDeleted}

\* C24: the message of an error response contains the text of no exception:
\* a failure other than not-found, validation, duplicate email or missing
\* employee is reported without the detail of what raised it.
C24_NoExceptionDetail ==
    (Answered /\ LastIsError)
    => LET msg == last.resp.body.message
       IN \A exc \in ExceptionTexts :
              \A i \in 1..(Len(msg) - Len(exc) + 1) :
                  SubSeq(msg, i, i + Len(exc) - 1) # exc

\* Rows `kept` of table rows are in table rowsAfter as they were, and
\* rowsAfter has no row that rows did not have.
Kept(rows, rowsAfter, kept) ==
    /\ DOMAIN rowsAfter \subseteq DOMAIN rows
    /\ \A i \in kept : i \in DOMAIN rowsAfter /\ rowsAfter[i] = rows[i]

\* C25: the commit of a delete of a task leaves every employee and every
\* other task as it was; the commit of a delete of an employee leaves every
\* other employee, and every task that does not reference the employee, as
\* it was; and the target is stored no more.
C25_DeleteFrame ==
    [][\A w \in Workers :
        /\ (At(w, "delete_task") /\ req'[w] = Idle)
           => /\ employees' = employees
              /\ Kept(tasks, tasks', DOMAIN tasks \ {req[w].id})
              /\ req[w].id \notin DOMAIN tasks'
        /\ (At(w, "delete_employee") /\ req'[w] = Idle)
           => /\ Kept(employees, employees', DOMAIN employees \ {req[w].id})
              /\ Kept(tasks, tasks',
                      {t \in DOMAIN tasks :
                          tasks[t].employee_id # Some(req[w].id)})
              /\ req[w].id \notin DOMAIN employees']_vars

\* An employee who had a task was deleted: the other employee and a task
\* that did not reference the deleted one are still stored.
C25_Witness ==
    /\ last.op = "delete_employee"
    /\ LastIsSuccess
    /\ last.id \in DOMAIN hist.employees
    /\ \E t \in DOMAIN hist.tasks : hist.tasks[t].employee_id = Some(last.id)
    /\ \E e \in DOMAIN employees : e # last.id
    /\ \E t \in DOMAIN tasks : tasks[t].employee_id # Some(last.id)

\* No worker is serving a request.
Quiescent == \A w \in Workers : req[w].pc = "idle"

\* C26: once the requests in progress have completed, no stored task
\* references an employee who has been deleted, however the delete was
\* interleaved with the task creates and updates that assigned the employee.
C26_NoTaskOfDeletedEmployee ==
    Quiescent
    => \A i \in DOMAIN hist.created :
           hist.created[i] \notin DOMAIN employees
           => \A t \in DOMAIN tasks :
                  tasks[t].employee_id # Some(hist.created[i])

\* C27: of update-employee requests on different employees that have passed
\* the pre-check with one new email, the one that commits while no other
\* employee holds the email gets it (it is answered 200 unless the employee
\* has a task), and one that commits when another employee holds it is
\* answered 400 with the duplicate-email error of the unique constraint and
\* changes no employee; so at most one employee holds the email.
C27_RacingEmailUpdates ==
    [][\A w \in Workers :
        (/\ At(w, "update_employee") /\ req'[w] = Idle
         /\ req[w].id \in DOMAIN employees
         /\ "email" \in DOMAIN req[w].data
         /\ req[w].data.email # req[w].loaded.email)
        => LET id == req[w].id
               email == req[w].data.email
           IN IF \E j \in DOMAIN employees \ {id} : employees[j].email = email
              THEN /\ last'.resp = ErrorResponse(400, MsgEmailIntegrity)
                   /\ employees' = employees
                   /\ EmailCount(employees', email) = 1
              ELSE /\ employees'[id].email = email
                   /\ EmailCount(employees', email) = 1
                   /\ OwnedTasks(tasks, id) = {} => last'.resp.code = 200]_vars

\* Two updates, of employees 1 and 2, to the unused email c@x.io were
\* served: one employee has the email, and the update answered last was
\* refused at its commit and its employee has the email it had.
C27_Witness ==
    /\ issued = 2
    /\ Quiescent
    /\ last.op = "update_employee"
    /\ last.resp = ErrorResponse(400, MsgEmailIntegrity)
    /\ last.data.email = Some("c@x.io")
    /\ last.id \in DOMAIN employees
    /\ employees[last.id] = SeededEmployees[last.id]
    /\ \E j \in DOMAIN employees \ {last.id} :
           employees[j].email = Some("c@x.io")

\* C28: of the delete requests for one employee only the one whose commit
\* removes the employee is answered success: a delete that commits when the
\* employee is stored no more is answered with an error.
C28_OneDeleteSucceeds ==
    (last.op = "delete_employee" /\ LastIsSuccess)
    => last.id \in DOMAIN hist.employees

\* C29: an employee update with a valid payload whose email is the email the
\* employee has when the update is answered is not refused as a duplicate:
\* the employee then has every field of the payload, the email included, and
\* the answer is 200 (unless the employee has a task).
C29_OwnEmailAccepted ==
    (/\ last.op = "update_employee" /\ Answered
     /\ EmployeeUpdateSchemaValid(last.data)
     /\ "email" \in DOMAIN last.data
     /\ last.id \in DOMAIN hist.employees
     /\ hist.employees[last.id].email = last.data.email)
    => /\ LastIsError
          => last.resp.body.message \notin {MsgEmailExists, MsgEmailIntegrity}
       /\ OwnedTasks(hist.tasks, last.id) = {} => last.resp.code = 200
       /\ last.id \in DOMAIN employees
       /\ \A k \in DOMAIN last.data : employees[last.id][k] = last.data[k]

\* Employee 1 was updated with its own email and a new first name, and was
\* answered 200 with the name changed.
C29_Witness ==
    /\ last.op = "update_employee"
    /\ last.resp.code = 200
    /\ last.id \in DOMAIN hist.employees
    /\ last.data = [email |-> hist.employees[last.id].email,
                    first_name |-> Some("Bob")]
    /\ hist.employees[last.id].first_name # Some("Bob")
    /\ employees[last.id].first_name = Some("Bob")
    /\ employees[last.id].email = hist.employees[last.id].email

\* The ids of the records list response r returned.
ListedIds(r) == {r.resp.body.data[i].id : i \in DOMAIN r.resp.body.data}

\* C30: with the filters and the page size fixed and nothing stored in
\* between, two different pages of a list have no record in common, pages 1
\* and 2 of a list of two pages hold every matching record between them, and
\* a page beyond the last is answered with success and no items.
C30_PagesPartition ==
    [][(issued' = issued + 1 /\ req' = req /\ LastIsList')
       => /\ (/\ LastIsList /\ LastIsSuccess /\ LastIsSuccess'
              /\ last'.op = last.op
              /\ [last'.data EXCEPT !.page = None] =
                     [last.data EXCEPT !.page = None]
              /\ ListPage' # ListPage)
             => /\ ListedIds(last) \cap ListedIds(last') = {}
                /\ (/\ last.resp.body.pagination.pages = 2
                    /\ {ListPage, ListPage'} = {1, 2})
                   => ListedIds(last) \cup ListedIds(last') = ListMatching
          /\ ListPage' > CeilDiv(Cardinality(ListMatching'), ListPerPage')
             => /\ LastIsSuccess'
                /\ last'.resp.body.data = << >>]_vars

====
